---- MODULE Spec2Model ----
(***************************************************************************)
(* F1-Pulse: the loader (utils/data_loader.py) and the aggregation         *)
(* functions (utils/statistics.py) as a state machine.                     *)
(*                                                                         *)
(* Numbers.  A pandas float cell is a record [k, v]: k = "num" with v the  *)
(* value in hundredths (25 points = 2500, a rate of 33.33 = 3333),         *)
(* k = "nan" for a missing value and k = "inf" for the result of x / 0.    *)
(* The integer columns season and round are cells too, with v the integer  *)
(* itself.  Counts (sums of booleans, group sizes) are plain naturals.  A  *)
(* mean that the code does not round is a reduced fraction [k, n, d].  A   *)
(* missing text cell (driver, circuit_id) is the empty string.             *)
(***************************************************************************)
EXTENDS Integers, Sequences, FiniteSets, TLC

VARIABLES
  \* the rows of the five files of attached_assets/
  results_csv, standings_csv, weather_csv, qualifying_csv, races_csv,
  \* each file: "ok", "missing" or "unreadable"
  file_state,
  \* what load_all_data returned
  data,
  \* the script run: its phase and the st.error messages shown
  app,
  \* what each aggregation function returned when last called
  out

vars ==
  <<results_csv, standings_csv, weather_csv, qualifying_csv, races_csv,
    file_state, data, app, out>>

----------------------------------------------------------------------------
(* Bounds of the model *)

\* rows of attached_assets/results.csv
MaxResultRows == 3
\* rows of attached_assets/driver_standings.csv
MaxStandingRows == 3
\* rows of attached_assets/weather.csv, qualifying.csv and races.csv
MaxAuxRows == 2
\* rows of results.csv and driver_standings.csv where the loader is examined
MaxLoadRows == 2
\* runs of the script in one process: every interaction runs it again
MaxRuns == 3
\* race weekends on file where every aggregation is called
MaxWeekends == 2

----------------------------------------------------------------------------
(* Float cells *)

NaN == [k |-> "nan", v |-> 0]
Inf == [k |-> "inf", v |-> 0]
Num(x) == [k |-> "num", v |-> x]
IsNum(c) == c.k = "num"
isna(c) == c.k = "nan"

\* hundredths of one unit
Scale == 100

\* the integer nearest to n / d (n >= 0, d > 0), a tie going to the even one:
\* numpy's rint, which DataFrame.round / Series.round apply after scaling
RoundHalfEven(n, d) ==
  LET q == n \div d
      r == n % d
  IN  IF 2 * r < d THEN q
      ELSE IF 2 * r > d THEN q + 1
      ELSE IF q % 2 = 0 THEN q ELSE q + 1

\* Series / Series of two counts, times 100, .round(2): total_wins / total_races * 100.
\* Float division by zero does not raise: 0 / 0 is NaN and x / 0 is inf.
RatePct(num, den) ==
  IF den = 0
  THEN IF num = 0 THEN NaN ELSE Inf
  ELSE Num(RoundHalfEven(num * 100 * Scale, den))

\* (a float column / a count column).round(2): total_points / seasons_active
DivRound2(c, den) ==
  IF isna(c) THEN NaN
  ELSE IF den = 0 THEN (IF c.v = 0 THEN NaN ELSE Inf)
  ELSE Num(RoundHalfEven(c.v, den))

\* DataFrame.fillna(0) on one cell: only NaN is replaced, inf is kept
fillna0(c) == IF isna(c) THEN Num(0) ELSE c

----------------------------------------------------------------------------
(* Sequences *)

RECURSIVE SumSeq(_)
SumSeq(s) == IF s = <<>> THEN 0 ELSE Head(s) + SumSeq(Tail(s))

Range(s) == {s[i] : i \in DOMAIN s}

\* the non-missing cells of column col, as their values in hundredths
RECURSIVE Present(_, _)
Present(rows, col) ==
  IF rows = <<>> THEN <<>>
  ELSE IF IsNum(Head(rows)[col])
       THEN <<Head(rows)[col].v>> \o Present(Tail(rows), col)
       ELSE Present(Tail(rows), col)

\* GroupBy.sum / Series.sum (skipna): missing cells are skipped, an empty sum is 0
col_sum(rows, col) == Num(SumSeq(Present(rows, col)))
\* GroupBy.count / Series.count: the number of non-missing cells
col_count(rows, col) == Len(Present(rows, col))
\* GroupBy.mean(...).round(2): NaN when every cell is missing
col_mean_round2(rows, col) ==
  IF col_count(rows, col) = 0 THEN NaN
  ELSE Num(RoundHalfEven(SumSeq(Present(rows, col)), col_count(rows, col)))
\* sum of a boolean column
flag_sum(rows, col) == Cardinality({i \in DOMAIN rows : rows[i][col]})
\* GroupBy.nunique of a numeric column: missing cells are not counted
col_nunique(rows, col) ==
  Cardinality({rows[i][col] : i \in {j \in DOMAIN rows : ~isna(rows[j][col])}})
\* GroupBy.nunique of a text column
text_nunique(rows, col) ==
  Cardinality({rows[i][col] : i \in {j \in DOMAIN rows : rows[j][col] # ""}})

----------------------------------------------------------------------------
(* The CSV files.  A numeric cell of a file is raw text: digits that       *)
(* pd.to_numeric parses, text it cannot parse (errors='coerce'), or        *)
(* nothing.                                                                *)

Digits(n) == [t |-> "digits", n |-> n]
BadText == [t |-> "text", n |-> 0]
EmptyCell == [t |-> "empty", n |-> 0]

\* pd.to_numeric(cell, errors='coerce') on a float column
to_numeric(raw) == IF raw.t = "digits" THEN Num(raw.n * Scale) ELSE NaN

\* pd.read_csv on a cell of an integer column (season, round)
read_int(raw) == IF raw.t = "digits" THEN Num(raw.n) ELSE NaN

\* groupby sorts its keys: the drivers and constructors in sorted order
Drivers == <<"Hamilton", "Verstappen">>
Constructors == <<"Mercedes", "Red Bull">>

\* points awarded for a race win in the modern system
WinPoints == 25

\* (points, finishing position) of a row of results.csv
StatsOutcomes ==
  {<<Digits(WinPoints), 1>>, <<Digits(18), 2>>, <<Digits(0), 4>>, <<BadText, 1>>}

\* rows of results.csv for the entity summaries: driver, constructor, points
\* and finishing position vary
StatsRows ==
  {[season |-> Digits(2020), round |-> Digits(1), circuit_id |-> "monza",
    driver |-> d, constructor |-> c,
    grid |-> Digits(1), points |-> o[1], podium |-> o[2],
    status |-> "Finished"] :
     d \in Range(Drivers), c \in Range(Constructors), o \in StatsOutcomes}

----------------------------------------------------------------------------
(* utils/data_loader.py *)

\* a win threshold that leaves out the 25-point row itself
is_win_strict(points) == IsNum(points) /\ points.v > WinPoints * Scale

\* df['points'] >= 25: a comparison with a missing value is False
is_win_of(points) == IsNum(points) /\ points.v >= WinPoints * Scale

\* a podium test that leaves out third place
is_podium_top_two(podium) == podium \in {1, 2}

\* df['podium'].isin([1, 2, 3])
is_podium_of(podium) == podium \in {1, 2, 3}

\* df['podium'].isin([1, 2, 3]) if 'podium' in df.columns else False
is_podium_column(raw) ==
  IF "podium" \in DOMAIN raw THEN is_podium_of(raw.podium) ELSE FALSE

\* (df['status'] == 'Finished') & (df['grid'] <= 50) & (df['points'] > 0)
first_win_indicator(raw) ==
  /\ raw.status = "Finished"
  /\ IsNum(to_numeric(raw.grid)) /\ to_numeric(raw.grid).v <= 50 * Scale
  /\ IsNum(to_numeric(raw.points)) /\ to_numeric(raw.points).v > 0

\* the columns of a results row that clean_data leaves as read
results_row_as_read(raw) ==
  [c \in DOMAIN raw \ {"season", "round", "grid", "points"} |-> raw[c]]

\* clean_data without the second assignment of is_win
clean_results_row_first_indicator(raw) ==
  [season |-> read_int(raw.season), round |-> read_int(raw.round),
   grid |-> to_numeric(raw.grid), points |-> to_numeric(raw.points),
   is_win |-> first_win_indicator(raw),
   is_podium |-> is_podium_column(raw)] @@ results_row_as_read(raw)

\* clean_data on one row of the results table; a row has a podium cell only
\* when the file has a podium column
clean_results_row(raw) ==
  [season |-> read_int(raw.season), round |-> read_int(raw.round),
   grid |-> to_numeric(raw.grid), points |-> to_numeric(raw.points),
   is_win |-> is_win_of(to_numeric(raw.points)),
   is_podium |-> is_podium_column(raw)] @@ results_row_as_read(raw)

\* clean_data on the results table: no row is dropped
clean_results(rows) == [i \in DOMAIN rows |-> clean_results_row(rows[i])]

\* clean_data on one row of the driver_standings table
clean_standings_row(raw) ==
  [season |-> read_int(raw.season), round |-> read_int(raw.round),
   driver |-> raw.driver,
   driver_points_after_race |-> to_numeric(raw.driver_points_after_race),
   driver_wins_after_race |-> to_numeric(raw.driver_wins_after_race),
   driver_standings_pos_after_race |-> to_numeric(raw.driver_standings_pos_after_race)]

\* a dropna over every column of the standings row
standings_row_all_present(r) ==
  /\ ~isna(r.season) /\ ~isna(r.round) /\ r.driver # ""
  /\ ~isna(r.driver_points_after_race)
  /\ ~isna(r.driver_wins_after_race)
  /\ ~isna(r.driver_standings_pos_after_race)

\* df.dropna(subset=['season', 'round', 'driver'])
standings_row_complete(r) == ~isna(r.season) /\ ~isna(r.round) /\ r.driver # ""

\* clean_data on the driver_standings table
clean_standings(rows) ==
  SelectSeq([i \in DOMAIN rows |-> clean_standings_row(rows[i])],
            standings_row_complete)

\* a flag cell of weather.csv: 1 / True, 0 / False, or nothing
Flag(b) == [t |-> "flag", n |-> IF b THEN 1 ELSE 0]

\* Series.astype(bool) on one cell: a missing value (NaN) is truthy
astype_bool(raw) == IF raw.t = "empty" THEN TRUE ELSE raw.n # 0

bool_cols == {"weather_warm", "weather_cold", "weather_dry", "weather_wet", "weather_cloudy"}

\* clean_data on one row of the weather table: the flag columns the file has
\* are converted, the others stay as read
clean_weather_row(raw) ==
  [c \in DOMAIN raw |->
     IF c \in bool_cols THEN astype_bool(raw[c])
     ELSE IF c \in {"season", "round"} THEN read_int(raw[c])
     ELSE raw[c]]

clean_weather(rows) == [i \in DOMAIN rows |-> clean_weather_row(rows[i])]

\* the three-letter codes that follow a name in qualifying.csv
DriverCodes == {"HAM", "VER"}

\* str.strip, then the two str.replace of clean_data on a driver_name given as
\* its words: a trailing three-capital code is removed when a word precedes
\* it; the words that remain are the name, joined by single spaces
driver_of_name(words) ==
  IF Len(words) >= 2 /\ words[Len(words)] \in DriverCodes
  THEN SubSeq(words, 1, Len(words) - 1)
  ELSE words

\* clean_data on one row of the qualifying table
clean_qualifying_row(raw) ==
  [season |-> read_int(raw.season), round |-> read_int(raw.round),
   circuit_id |-> raw.circuit_id,
   grid_position |-> to_numeric(raw.grid_position),
   driver_name |-> raw.driver_name,
   driver |-> driver_of_name(raw.driver_name)]

clean_qualifying(rows) == [i \in DOMAIN rows |-> clean_qualifying_row(rows[i])]

\* pd.read_csv on a cell of a float column (lat, long)
read_float(raw) == IF raw.t = "digits" THEN Num(raw.n * Scale) ELSE NaN

\* clean_data on one row of the races table (the files here have no date
\* column)
clean_races_row(raw) ==
  [season |-> read_int(raw.season), round |-> read_int(raw.round),
   circuit_id |-> raw.circuit_id, country |-> raw.country,
   lat |-> read_float(raw.lat), long |-> read_float(raw.long)]

clean_races(rows) == [i \in DOMAIN rows |-> clean_races_row(rows[i])]

\* data_files of load_all_data, in the order of the dict
DataFiles == <<"driver_standings", "qualifying", "races", "results", "weather">>

\* clean_data: every table of the dict
clean_data(tables) ==
  [driver_standings |-> clean_standings(tables.driver_standings),
   qualifying |-> clean_qualifying(tables.qualifying),
   races |-> clean_races(tables.races),
   results |-> clean_results(tables.results),
   weather |-> clean_weather(tables.weather)]

\* the st.error message for a file that could not be read
file_error(state, key) ==
  IF state = "missing" THEN <<"File not found", key>> ELSE <<"Error loading", key>>

RECURSIVE read_files_skipping(_, _, _)
\* a loop that goes on to the next file after a failure
read_files_skipping(files, keys, read) ==
  IF keys = <<>> THEN [value |-> "dict", keys |-> read, errors |-> <<>>]
  ELSE IF files[Head(keys)] = "ok"
       THEN read_files_skipping(files, Tail(keys), read \cup {Head(keys)})
       ELSE LET rest == read_files_skipping(files, Tail(keys), read)
            IN  [rest EXCEPT !.errors =
                   <<file_error(files[Head(keys)], Head(keys))>> \o rest.errors]

RECURSIVE read_files_all_or_none(_, _, _)
\* the loop as written
read_files_all_or_none(files, keys, read) ==
  IF keys = <<>> THEN [value |-> "dict", keys |-> read, errors |-> <<>>]
  ELSE IF files[Head(keys)] = "ok"
       THEN read_files_all_or_none(files, Tail(keys), read \cup {Head(keys)})
       ELSE [value |-> "None", keys |-> {},
             errors |-> <<file_error(files[Head(keys)], Head(keys))>>]

\* the loop of load_all_data over data_files: a file that does not exist, or
\* that pd.read_csv raises on, ends the function with st.error and None
read_files(files, keys, read) == read_files_all_or_none(files, keys, read)

\* load_all_data: [value, keys, errors, tables]
load_all_data(files, tables) ==
  LET r == read_files(files, DataFiles, {})
      cleaned == clean_data(tables)
  IN  IF r.value = "None"
      THEN [value |-> "None", keys |-> {}, errors |-> r.errors,
            tables |-> [k \in Range(DataFiles) |-> <<>>]]
      ELSE [value |-> "dataset", keys |-> r.keys, errors |-> r.errors,
            tables |-> [k \in Range(DataFiles) |->
                          IF k \in r.keys THEN cleaned[k] ELSE <<>>]]

\* (season, round, driver, status, grid, points) of a row of results.csv as
\* the loader may meet it: cells that do not parse, and cells left empty
LoadResultCells ==
  {<<Digits(2020), Digits(1), "Hamilton", "Finished", Digits(1), Digits(25)>>,
   <<Digits(2020), Digits(1), "Hamilton", "Accident", Digits(60), Digits(25)>>,
   <<Digits(2020), Digits(1), "Verstappen", "Finished", Digits(2), Digits(18)>>,
   <<Digits(2020), Digits(2), "Verstappen", "Finished", BadText, BadText>>,
   <<Digits(2020), Digits(2), "", "Finished", Digits(3), Digits(15)>>,
   <<EmptyCell, Digits(1), "Hamilton", "Finished", Digits(4), EmptyCell>>,
   <<Digits(2020), EmptyCell, "Hamilton", "Finished", Digits(1), Digits(25)>>}

\* rows of a results.csv without a podium column
LoadResultRowsNoPodium ==
  {[season |-> c[1], round |-> c[2], circuit_id |-> "monza",
    driver |-> c[3], constructor |-> "Mercedes", status |-> c[4],
    grid |-> c[5], points |-> c[6]] : c \in LoadResultCells}

\* rows of a results.csv with a podium column: the finishing position is the
\* grid position where that is 1 to 3, and 4 otherwise
LoadResultRowsPodium ==
  {[podium |-> IF r.grid.t = "digits" /\ r.grid.n <= 3 THEN r.grid.n ELSE 4]
     @@ r : r \in LoadResultRowsNoPodium}

LoadResultRows == LoadResultRowsPodium \cup LoadResultRowsNoPodium

\* rows of driver_standings.csv as the loader may meet it
LoadStandingRows ==
  {[season |-> c[1], round |-> c[2], driver |-> c[3],
    driver_points_after_race |-> c[4],
    driver_standings_pos_after_race |-> c[5],
    driver_wins_after_race |-> Digits(0)] :
     c \in {<<Digits(2020), Digits(1), "Hamilton", Digits(25), Digits(1)>>,
            <<Digits(2020), Digits(1), "Verstappen", BadText, Digits(2)>>,
            <<Digits(2020), Digits(2), "Verstappen", Digits(18), BadText>>,
            <<EmptyCell, Digits(1), "Hamilton", BadText, Digits(1)>>,
            <<Digits(2020), EmptyCell, "Hamilton", Digits(25), Digits(1)>>,
            <<Digits(2020), Digits(2), "", Digits(10), Digits(3)>>}}

\* the st.cache_data entry of load_all_data before the first call
EmptyCache == [kind |-> "empty"]

\* a call that runs load_all_data every time
get_data_uncached(cache, files, tables) ==
  LET loaded == load_all_data(files, tables)
  IN  [result |-> loaded,
       cache |-> [kind |-> "entry", value |-> loaded],
       read |-> 1]

\* get_data(): load_all_data under @st.cache_data. The function has no
\* arguments, so there is one entry: a call with the entry there returns the
\* stored value (a copy of it, with the st.error elements replayed) and does
\* not run the function; st.cache_data stores None like any other value
get_data(cache, files, tables) ==
  IF cache.kind = "entry"
  THEN [result |-> cache.value, cache |-> cache, read |-> 0]
  ELSE LET loaded == load_all_data(files, tables)
       IN  [result |-> loaded,
            cache |-> [kind |-> "entry", value |-> loaded],
            read |-> 1]

\* the dataset main holds after data = get_data()
dataset_of(got) ==
  [loaded |-> got.value = "dataset", keys |-> got.keys,
   results |-> got.tables.results,
   driver_standings |-> got.tables.driver_standings,
   qualifying |-> got.tables.qualifying,
   races |-> got.tables.races,
   weather |-> got.tables.weather]

\* the try / except of main around get_data() and the five subscripts
script_after_load(previous, call) ==
  LET got == call.result
      usable == got.value = "dataset" /\ got.keys = Range(DataFiles)
  IN  [phase |-> IF usable THEN "running" ELSE "stopped",
       load_result |-> got.value,
       errors |-> IF usable THEN got.errors
                  ELSE got.errors \o <<<<"Error loading data", "">>>>,
       runs |-> previous.runs + 1,
       reads |-> previous.reads + call.read,
       cache |-> call.cache]

----------------------------------------------------------------------------
(* utils/statistics.py: entity summaries *)

\* the groups of groupby(col): the keys present, in sorted order
group_keys(rows, col, sorted) ==
  SelectSeq(sorted, LAMBDA key : \E i \in DOMAIN rows : rows[i][col] = key)
group_rows(rows, col, key) == SelectSeq(rows, LAMBDA r : r[col] = key)

\* one row of calculate_driver_stats
driver_stats_row(g, key) ==
  LET total_points == col_sum(g, "points")
      total_races == col_count(g, "points")
      total_wins == flag_sum(g, "is_win")
      total_podiums == flag_sum(g, "is_podium")
      seasons_active == col_nunique(g, "season")
  IN  [driver |-> key,
       total_points |-> total_points,
       avg_points_per_race |-> fillna0(col_mean_round2(g, "points")),
       total_races |-> total_races,
       total_wins |-> total_wins,
       total_podiums |-> total_podiums,
       avg_grid_position |-> fillna0(col_mean_round2(g, "grid")),
       seasons_active |-> seasons_active,
       win_rate |-> fillna0(RatePct(total_wins, total_races)),
       podium_rate |-> fillna0(RatePct(total_podiums, total_races)),
       points_per_season |-> fillna0(DivRound2(total_points, seasons_active))]

driver_stats_table(results) ==
  LET keys == group_keys(results, "driver", Drivers)
  IN  [kind |-> "table",
       rows |-> [i \in DOMAIN keys |->
                   driver_stats_row(group_rows(results, "driver", keys[i]), keys[i])]]

\* a slip that treats an empty input as "no data"
calculate_driver_stats_absent_on_empty(results) ==
  IF results = <<>> THEN [kind |-> "absent"] ELSE driver_stats_table(results)

calculate_driver_stats(results) == driver_stats_table(results)

\* one row of calculate_constructor_stats
constructor_stats_row(g, key) ==
  LET total_points == col_sum(g, "points")
      total_races == col_count(g, "points")
      total_wins == flag_sum(g, "is_win")
      total_podiums == flag_sum(g, "is_podium")
      seasons_active == col_nunique(g, "season")
  IN  [constructor |-> key,
       total_points |-> total_points,
       avg_points_per_race |-> fillna0(col_mean_round2(g, "points")),
       total_races |-> total_races,
       total_wins |-> total_wins,
       total_podiums |-> total_podiums,
       unique_drivers |-> text_nunique(g, "driver"),
       seasons_active |-> seasons_active,
       win_rate |-> fillna0(RatePct(total_wins, total_races)),
       podium_rate |-> fillna0(RatePct(total_podiums, total_races)),
       points_per_season |-> fillna0(DivRound2(total_points, seasons_active))]

calculate_constructor_stats(results) ==
  LET keys == group_keys(results, "constructor", Constructors)
  IN  [kind |-> "table",
       rows |-> [i \in DOMAIN keys |->
                   constructor_stats_row(group_rows(results, "constructor", keys[i]),
                                         keys[i])]]

----------------------------------------------------------------------------
(* utils/statistics.py: head-to-head *)

\* (grid, points, finishing position) of a row of results.csv
H2HOutcomes ==
  {<<Digits(1), Digits(WinPoints), 1>>, <<Digits(2), Digits(18), 2>>,
   <<BadText, Digits(0), 4>>, <<Digits(2), BadText, 3>>}

\* the races (season, round, circuit_id) of results.csv
Races == {<<2020, 1, "monza">>, <<2020, 2, "monza">>}

\* rows of results.csv for head-to-head: driver, race, grid, points and
\* finishing position vary
H2HRows ==
  {[season |-> Digits(k[1]), round |-> Digits(k[2]), circuit_id |-> k[3],
    driver |-> d, constructor |-> "Mercedes",
    grid |-> o[1], points |-> o[2], podium |-> o[3],
    status |-> "Finished"] :
     d \in Range(Drivers), k \in Races, o \in H2HOutcomes}

\* the join key on=['season', 'round', 'circuit_id']; pandas matches a
\* missing key with a missing key
same_race(l, r) ==
  l.season = r.season /\ l.round = r.round /\ l.circuit_id = r.circuit_id

\* a suffix slip: points_d2 read from the left frame
merge_row_left_points(l, r) ==
  [season |-> l.season, round |-> l.round, circuit_id |-> l.circuit_id,
   grid_d1 |-> l.grid, points_d1 |-> l.points,
   is_win_d1 |-> l.is_win, is_podium_d1 |-> l.is_podium,
   grid_d2 |-> r.grid, points_d2 |-> l.points,
   is_win_d2 |-> r.is_win, is_podium_d2 |-> r.is_podium]

\* one row of the merged frame, suffixes=('_d1', '_d2')
merge_row(l, r) ==
  [season |-> l.season, round |-> l.round, circuit_id |-> l.circuit_id,
   grid_d1 |-> l.grid, points_d1 |-> l.points,
   is_win_d1 |-> l.is_win, is_podium_d1 |-> l.is_podium,
   grid_d2 |-> r.grid, points_d2 |-> r.points,
   is_win_d2 |-> r.is_win, is_podium_d2 |-> r.is_podium]

\* the row of a left frame row without a match under how='left'
unmatched_row(l) ==
  [season |-> l.season, round |-> l.round, circuit_id |-> l.circuit_id,
   grid_d1 |-> l.grid, points_d1 |-> l.points,
   is_win_d1 |-> l.is_win, is_podium_d1 |-> l.is_podium,
   grid_d2 |-> NaN, points_d2 |-> NaN,
   is_win_d2 |-> FALSE, is_podium_d2 |-> FALSE]

RECURSIVE merge_left(_, _)
\* pd.merge(..., how='left'): every left row is kept
merge_left(left, right) ==
  IF left = <<>> THEN <<>>
  ELSE LET l == Head(left)
           hits == SelectSeq(right, LAMBDA r : same_race(l, r))
       IN  (IF hits = <<>> THEN <<unmatched_row(l)>>
            ELSE [j \in DOMAIN hits |-> merge_row(l, hits[j])])
             \o merge_left(Tail(left), right)

RECURSIVE merge_inner(_, _)
\* pd.merge(left, right, on=[...]) (how='inner'): one row for every pair of a
\* left row and a right row of the same race, in the order of the left rows
merge_inner(left, right) ==
  IF left = <<>> THEN <<>>
  ELSE LET l == Head(left)
           hits == SelectSeq(right, LAMBDA r : same_race(l, r))
       IN  [j \in DOMAIN hits |-> merge_row(l, hits[j])]
             \o merge_inner(Tail(left), right)

\* a comparison that counts a tie
cell_le(a, b) == IsNum(a) /\ IsNum(b) /\ a.v <= b.v

\* a < b on two float cells: False when either is missing
cell_lt(a, b) == IsNum(a) /\ IsNum(b) /\ a.v < b.v

\* (column_a < column_b).sum(): the rows in which the comparison is True
lt_count(rows, col_a, col_b) ==
  Cardinality({i \in DOMAIN rows : cell_lt(rows[i][col_a], rows[i][col_b])})

RECURSIVE GCD(_, _)
GCD(a, b) == IF b = 0 THEN a ELSE GCD(b, a % b)

\* Series.mean(), not rounded: a reduced fraction, NaN when all are missing
col_mean(rows, col) ==
  LET n == SumSeq(Present(rows, col))
      d == col_count(rows, col)
  IN  IF d = 0 THEN [k |-> "nan", n |-> 0, d |-> 1]
      ELSE [k |-> "num", n |-> n \div GCD(n, d), d |-> d \div GCD(n, d)]

Absent == [kind |-> "absent"]

\* the stats dict of calculate_head_to_head_stats
head_to_head_record(common) ==
  [kind |-> "record",
   total_common_races |-> Len(common),
   driver1_better_finish |-> lt_count(common, "grid_d1", "grid_d2"),
   driver2_better_finish |-> lt_count(common, "grid_d2", "grid_d1"),
   driver1_more_points |-> lt_count(common, "points_d2", "points_d1"),
   driver2_more_points |-> lt_count(common, "points_d1", "points_d2"),
   driver1_total_points |-> col_sum(common, "points_d1"),
   driver2_total_points |-> col_sum(common, "points_d2"),
   driver1_wins |-> flag_sum(common, "is_win_d1"),
   driver2_wins |-> flag_sum(common, "is_win_d2"),
   driver1_podiums |-> flag_sum(common, "is_podium_d1"),
   driver2_podiums |-> flag_sum(common, "is_podium_d2"),
   avg_finishing_position_d1 |-> col_mean(common, "grid_d1"),
   avg_finishing_position_d2 |-> col_mean(common, "grid_d2")]

\* the record without the check for an empty join
head_to_head_unchecked(common) == head_to_head_record(common)

\* if common_races.empty: return None
head_to_head_result(common) ==
  IF common = <<>> THEN Absent ELSE head_to_head_record(common)

calculate_head_to_head_stats(results, driver1, driver2) ==
  LET driver1_data == SelectSeq(results, LAMBDA r : r.driver = driver1)
      driver2_data == SelectSeq(results, LAMBDA r : r.driver = driver2)
  IN  head_to_head_result(merge_inner(driver1_data, driver2_data))

----------------------------------------------------------------------------
(* utils/statistics.py: season progression *)

\* the seasons of driver_standings.csv
Seasons == {2020, 2021}

\* (driver, season) of a row of driver_standings.csv
StandingEntries == {<<"Hamilton", 2020>>, <<"Hamilton", 2021>>, <<"Verstappen", 2020>>}

\* (points, position, wins) after a race
StandingValues == {<<10, 2, 0>>, <<25, 1, 1>>}

\* rows of driver_standings.csv: the round cell may be empty
StandingRows ==
  {[season |-> Digits(e[2]), round |-> rd, driver |-> e[1],
    driver_points_after_race |-> Digits(v[1]),
    driver_standings_pos_after_race |-> Digits(v[2]),
    driver_wins_after_race |-> Digits(v[3])] :
     e \in StandingEntries, rd \in {Digits(1), Digits(2), EmptyCell},
     v \in StandingValues}

\* the order sort_values('round') compares by: ascending, missing values last
round_le(a, b) == isna(b) \/ (IsNum(a) /\ IsNum(b) /\ a.v <= b.v)

\* the source order kept: no sort at all
source_order(rows) == {[i \in DOMAIN rows |-> i]}

\* DataFrame.sort_values('round') with the default kind='quicksort', which is
\* not stable: every ascending order of the rows is a possible outcome, rows
\* of equal round in any order
sort_values_orders(rows) ==
  {p \in Permutations(DOMAIN rows) :
     \A i, j \in DOMAIN rows :
       i < j => round_le(rows[p[i]].round, rows[p[j]].round)}

\* .iloc[0]
first_row(rows) == rows[1]

\* .iloc[-1]
last_row(rows) == rows[Len(rows)]

\* the progression dict of calculate_season_progression
progression_record(driver_season) ==
  [kind |-> "record",
   rounds |-> [i \in DOMAIN driver_season |-> driver_season[i].round],
   points |-> [i \in DOMAIN driver_season |-> driver_season[i].driver_points_after_race],
   position |->
     [i \in DOMAIN driver_season |-> driver_season[i].driver_standings_pos_after_race],
   wins |-> [i \in DOMAIN driver_season |-> driver_season[i].driver_wins_after_race],
   final_position |-> last_row(driver_season).driver_standings_pos_after_race,
   final_points |-> last_row(driver_season).driver_points_after_race,
   total_wins |-> last_row(driver_season).driver_wins_after_race]

\* a filter that forgets the season
matches_driver_only(r, driver, season) == r.driver = driver

\* (standings_data['driver'] == driver) & (standings_data['season'] == season)
matches_driver_season(r, driver, season) ==
  r.driver = driver /\ r.season = Num(season)

\* the values calculate_season_progression may return, one for every outcome
\* of the sort
calculate_season_progression(standings, driver, season) ==
  LET matching ==
        SelectSeq(standings, LAMBDA r : matches_driver_season(r, driver, season))
  IN  IF matching = <<>> THEN {Absent}
      ELSE {progression_record([i \in DOMAIN matching |-> matching[p[i]]]) :
              p \in sort_values_orders(matching)}

----------------------------------------------------------------------------
(* utils/statistics.py: weather impact *)

\* the races that weather.csv has rows for
WeatherRaces == {<<2020, 1, "monza">>, <<2020, 2, "monza">>}

\* rows of results.csv for the weather impact
WeatherResultRows ==
  {[season |-> Digits(k[1]), round |-> Digits(k[2]), circuit_id |-> k[3],
    driver |-> "Hamilton", constructor |-> "Mercedes",
    grid |-> Digits(1), points |-> k[4], podium |-> 1,
    status |-> "Finished"] :
     k \in {<<2020, 1, "monza", Digits(25)>>, <<2020, 1, "monza", BadText>>,
            <<2020, 2, "monza", Digits(10)>>, <<2021, 1, "spa", Digits(25)>>}}

\* (wet, dry, warm, cold, cloudy) cells of a row of weather.csv
WeatherProfiles ==
  {<<Flag(TRUE), Flag(FALSE), Flag(TRUE), Flag(FALSE), Flag(TRUE)>>,
   <<Flag(FALSE), Flag(TRUE), Flag(TRUE), Flag(FALSE), EmptyCell>>,
   <<Flag(FALSE), Flag(TRUE), Flag(TRUE), Flag(FALSE), Flag(FALSE)>>}

\* rows of a weather.csv that has all five flag columns
WeatherRowsFull ==
  {[season |-> Digits(k[1]), round |-> Digits(k[2]), circuit_id |-> k[3],
    weather_wet |-> f[1], weather_dry |-> f[2], weather_warm |-> f[3],
    weather_cold |-> f[4], weather_cloudy |-> f[5]] :
     k \in WeatherRaces, f \in WeatherProfiles}

\* rows of a weather.csv without the weather_cloudy column
WeatherRowsNoCloudy ==
  {[season |-> Digits(k[1]), round |-> Digits(k[2]), circuit_id |-> k[3],
    weather_wet |-> f[1], weather_dry |-> f[2], weather_warm |-> f[3],
    weather_cold |-> f[4]] :
     k \in WeatherRaces, f \in WeatherProfiles}

WeatherRows == WeatherRowsFull \cup WeatherRowsNoCloudy

weather_conditions ==
  <<"weather_wet", "weather_dry", "weather_warm", "weather_cold", "weather_cloudy">>

\* one row of pd.merge(results_data, weather_data, ...): the columns of the
\* results row, then the columns of the weather row that are not keys
merge_weather_row(l, w) ==
  l @@ [c \in DOMAIN w \ {"season", "round", "circuit_id"} |-> w[c]]

RECURSIVE merge_results_weather(_, _)
\* pd.merge(results_data, weather_data, on=['season', 'round', 'circuit_id'],
\* how='inner')
merge_results_weather(results, weather) ==
  IF results = <<>> THEN <<>>
  ELSE LET l == Head(results)
           hits == SelectSeq(weather, LAMBDA w : same_race(l, w))
       IN  [j \in DOMAIN hits |-> merge_weather_row(l, hits[j])]
             \o merge_results_weather(Tail(results), weather)

\* merged_data[merged_data[condition] == True]
condition_true(merged, condition) ==
  SelectSeq(merged, LAMBDA r : r[condition] = TRUE)

\* a selection that also asks for points
condition_false_with_points(merged, condition) ==
  SelectSeq(merged, LAMBDA r : r[condition] = FALSE /\ ~isna(r.points))

\* merged_data[merged_data[condition] == False]
condition_false(merged, condition) ==
  SelectSeq(merged, LAMBDA r : r[condition] = FALSE)

\* a test that asks only for rows with the condition
has_true_subset(merged, condition) ==
  /\ condition \in DOMAIN merged[1]
  /\ Len(condition_true(merged, condition)) > 0

\* if condition in merged_data.columns, and
\* if len(condition_true) > 0 and len(condition_false) > 0
has_both_subsets(merged, condition) ==
  /\ condition \in DOMAIN merged[1]
  /\ Len(condition_true(merged, condition)) > 0
  /\ Len(condition_false(merged, condition)) > 0

\* a - b on two means held as fractions; NaN when either is
mean_difference(a, b) ==
  IF a.k = "nan" \/ b.k = "nan" THEN [k |-> "nan", n |-> 0, d |-> 1]
  ELSE LET n == a.n * b.d - b.n * a.d
           d == a.d * b.d
           g == GCD(IF n < 0 THEN -n ELSE n, d)
       IN  [k |-> "num", n |-> n \div g, d |-> d \div g]

\* weather_impact[condition]; t_statistic and p_value (scipy's ttest_ind) are
\* real-valued functions of the two samples and are not part of the record
condition_record(merged, condition) ==
  LET with == condition_true(merged, condition)
      without == condition_false(merged, condition)
  IN  [mean_points_with_condition |-> col_mean(with, "points"),
       mean_points_without_condition |-> col_mean(without, "points"),
       difference |-> mean_difference(col_mean(with, "points"),
                                      col_mean(without, "points")),
       sample_size_with |-> Len(with),
       sample_size_without |-> Len(without)]

\* the dict built by the loop over weather_conditions
weather_impact_dict(merged) ==
  LET keys == {c \in Range(weather_conditions) : has_both_subsets(merged, c)}
  IN  [kind |-> "dict", keys |-> keys,
       stats |-> [c \in keys |-> condition_record(merged, c)]]

\* a result that reports a dict without keys as no result
weather_impact_none_without_keys(merged) ==
  IF merged = <<>> \/ weather_impact_dict(merged).keys = {} THEN Absent
  ELSE weather_impact_dict(merged)

\* if merged_data.empty: return None; otherwise the dict
weather_impact_result(merged) ==
  IF merged = <<>> THEN Absent ELSE weather_impact_dict(merged)

calculate_weather_impact(results, weather) ==
  weather_impact_result(merge_results_weather(results, weather))

----------------------------------------------------------------------------
(* utils/statistics.py: qualifying against race *)

\* (race, driver_name, grid_position) of a row of qualifying.csv
QualifyingCells ==
  {<<<<2020, 1, "monza">>, <<"Hamilton", "HAM">>, Digits(1)>>,
   <<<<2020, 1, "monza">>, <<"Verstappen", "VER">>, Digits(2)>>,
   <<<<2020, 1, "monza">>, <<"Verstappen", "VER">>, BadText>>,
   <<<<2020, 2, "monza">>, <<"Hamilton", "HAM">>, Digits(1)>>,
   <<<<2020, 2, "monza">>, <<"Hamilton", "HAM">>, Digits(2)>>,
   <<<<2020, 2, "monza">>, <<"Verstappen", "VER">>, BadText>>}

\* rows of qualifying.csv: race, driver and grid_position vary
QualifyingRows ==
  {[season |-> Digits(c[1][1]), round |-> Digits(c[1][2]), circuit_id |-> c[1][3],
    grid_position |-> c[3], driver_name |-> c[2]] : c \in QualifyingCells}

\* rows of results.csv for the correlation: race, driver and grid vary
QualifyingResultRows ==
  {[season |-> Digits(k[1]), round |-> Digits(k[2]), circuit_id |-> k[3],
    driver |-> k[4], constructor |-> "Mercedes",
    grid |-> k[5], points |-> Digits(10), podium |-> 4,
    status |-> "Finished"] :
     k \in {<<2020, 1, "monza", "Hamilton", Digits(1)>>,
            <<2020, 1, "monza", "Verstappen", Digits(2)>>,
            <<2020, 1, "monza", "Hamilton", BadText>>,
            <<2020, 2, "monza", "Hamilton", Digits(1)>>}}

\* one row of pd.merge(qualifying_data, results_data, ...,
\* suffixes=('_qual', '_race')): driver is in both frames
merge_qualifying_row(l, r) ==
  [season |-> l.season, round |-> l.round, circuit_id |-> l.circuit_id,
   grid_position |-> l.grid_position, driver_name |-> l.driver_name,
   driver_qual |-> l.driver, driver_race |-> r.driver,
   constructor |-> r.constructor, grid |-> r.grid, points |-> r.points,
   status |-> r.status, is_win |-> r.is_win, is_podium |-> r.is_podium]

RECURSIVE merge_qualifying_results(_, _)
\* pd.merge(qualifying_data, results_data, on=['season', 'round', 'circuit_id'])
merge_qualifying_results(qualifying, results) ==
  IF qualifying = <<>> THEN <<>>
  ELSE LET l == Head(qualifying)
           hits == SelectSeq(results, LAMBDA r : same_race(l, r))
       IN  [j \in DOMAIN hits |-> merge_qualifying_row(l, hits[j])]
             \o merge_qualifying_results(Tail(qualifying), results)

\* a dropna that looks at grid_position only
grid_position_present(r) == ~isna(r.grid_position)

\* the rows dropna(subset=['grid_position', 'grid']) keeps
both_present(r) == ~isna(r.grid_position) /\ ~isna(r.grid)

\* merged_data.dropna(subset=['grid_position', 'grid'])
dropna_grid(merged) == SelectSeq(merged, LAMBDA r : both_present(r))

\* sum over the rows of the product of two columns
product_sum(rows, col_a, col_b) ==
  SumSeq([i \in DOMAIN rows |-> rows[i][col_a].v * rows[i][col_b].v])

\* stats.pearsonr on the two columns: NaN for a constant column, otherwise
\* the sign of r and r squared as a reduced fraction. The p-value is a
\* real-valued function of r and the sample size and is not part of the record
pearsonr(rows, col_x, col_y) ==
  LET n == Len(rows)
      sx == SumSeq([i \in DOMAIN rows |-> rows[i][col_x].v])
      sy == SumSeq([i \in DOMAIN rows |-> rows[i][col_y].v])
      cov == n * product_sum(rows, col_x, col_y) - sx * sy
      vx == n * product_sum(rows, col_x, col_x) - sx * sx
      vy == n * product_sum(rows, col_y, col_y) - sy * sy
      acov == IF cov < 0 THEN -cov ELSE cov
      g == GCD(GCD(acov, vx), vy)
      c == acov \div g
      d == (vx \div g) * (vy \div g)
  IN  IF vx = 0 \/ vy = 0 THEN [k |-> "nan", sign |-> 0, n |-> 0, d |-> 1]
      ELSE [k |-> "num",
            sign |-> IF cov < 0 THEN -1 ELSE IF cov > 0 THEN 1 ELSE 0,
            n |-> (c * c) \div GCD(c * c, d),
            d |-> d \div GCD(c * c, d)]

\* calculate_qualifying_vs_race_correlation after the merge; both grid columns
\* are in the merged frame whenever it has rows
qualifying_correlation_result(merged) ==
  LET clean == dropna_grid(merged)
  IN  IF merged = <<>> THEN Absent
      ELSE IF Len(clean) < 2 THEN Absent
      ELSE [kind |-> "record",
            correlation |-> pearsonr(clean, "grid_position", "grid"),
            sample_size |-> Len(clean)]

calculate_qualifying_vs_race_correlation(qualifying, results) ==
  qualifying_correlation_result(merge_qualifying_results(qualifying, results))

----------------------------------------------------------------------------
(* utils/statistics.py: circuit statistics *)

\* groupby sorts its keys: the circuits in sorted order
Circuits == <<"imola", "monza", "spa">>

\* rows of results.csv for the circuit statistics; races.csv has no row for
\* imola
CircuitResultRows ==
  {[season |-> Digits(2020), round |-> Digits(1), circuit_id |-> k[1],
    driver |-> k[2], constructor |-> "Mercedes",
    grid |-> Digits(1), points |-> k[3], podium |-> k[4],
    status |-> "Finished"] :
     k \in {<<"monza", "Hamilton", Digits(25), 1>>,
            <<"monza", "Verstappen", Digits(18), 2>>,
            <<"spa", "Hamilton", BadText, 4>>,
            <<"imola", "Hamilton", Digits(10), 4>>}}

\* rows of races.csv: country, lat and long may be empty
RaceRows ==
  {[season |-> Digits(2020), round |-> Digits(1), circuit_id |-> c,
    country |-> m[1], lat |-> m[2], long |-> m[3]] :
     c \in {"monza", "spa"},
     m \in {<<"Italy", Digits(45), Digits(9)>>,
            <<"", EmptyCell, Digits(5)>>,
            <<"Belgium", Digits(50), EmptyCell>>}}

\* GroupBy.first on a text column: the first value that is not missing
first_text(rows, col) ==
  LET present == SelectSeq(rows, LAMBDA r : r[col] # "")
  IN  IF present = <<>> THEN "" ELSE present[1][col]

\* GroupBy.first on a float column: the first value that is not missing
first_cell(rows, col) ==
  LET present == SelectSeq(rows, LAMBDA r : ~isna(r[col]))
  IN  IF present = <<>> THEN NaN ELSE present[1][col]

\* races_data.groupby('circuit_id').agg({'country': 'first', 'lat': 'first',
\* 'long': 'first'}).reset_index()
circuit_info(races) ==
  LET keys == group_keys(races, "circuit_id", Circuits)
  IN  [i \in DOMAIN keys |->
         LET g == group_rows(races, "circuit_id", keys[i])
         IN  [circuit_id |-> keys[i],
              country |-> first_text(g, "country"),
              lat |-> first_cell(g, "lat"),
              long |-> first_cell(g, "long")]]

\* one row of the grouped results, after the renaming
circuit_stats_row(g, key) ==
  [circuit_id |-> key,
   total_points |-> col_sum(g, "points"),
   avg_points_per_race |-> col_mean_round2(g, "points"),
   total_wins |-> flag_sum(g, "is_win"),
   total_podiums |-> flag_sum(g, "is_podium"),
   unique_drivers |-> text_nunique(g, "driver"),
   seasons_featured |-> col_nunique(g, "season")]

\* results_data.groupby('circuit_id').agg(...).round(2), one row per circuit
circuit_groups(results) ==
  LET keys == group_keys(results, "circuit_id", Circuits)
  IN  [i \in DOMAIN keys |->
         circuit_stats_row(group_rows(results, "circuit_id", keys[i]), keys[i])]

\* the metadata columns of a circuit without a row in circuit_info
no_circuit_info == [country |-> "", lat |-> NaN, long |-> NaN]

RECURSIVE merge_circuit_inner(_, _)
\* a join that keeps only the circuits circuit_info has
merge_circuit_inner(stats, info) ==
  IF stats = <<>> THEN <<>>
  ELSE LET l == Head(stats)
           hits == SelectSeq(info, LAMBDA r : r.circuit_id = l.circuit_id)
       IN  [j \in DOMAIN hits |-> l @@ hits[j]]
             \o merge_circuit_inner(Tail(stats), info)

RECURSIVE merge_circuit_left(_, _)
\* pd.merge(circuit_stats, circuit_info, on='circuit_id', how='left')
merge_circuit_left(stats, info) ==
  IF stats = <<>> THEN <<>>
  ELSE LET l == Head(stats)
           hits == SelectSeq(info, LAMBDA r : r.circuit_id = l.circuit_id)
       IN  (IF hits = <<>> THEN <<l @@ no_circuit_info>>
            ELSE [j \in DOMAIN hits |-> l @@ hits[j]])
             \o merge_circuit_left(Tail(stats), info)

calculate_circuit_stats(results, races) ==
  [kind |-> "table",
   rows |-> merge_circuit_left(circuit_groups(results), circuit_info(races))]

----------------------------------------------------------------------------
(* app.py: the overview metrics of main *)

\* rows of results.csv for the overview: race and driver vary
OverviewResultRows ==
  {[season |-> Digits(k[1]), round |-> Digits(k[2]), circuit_id |-> k[3],
    driver |-> d, constructor |-> "Mercedes",
    grid |-> Digits(1), points |-> Digits(10), podium |-> 4,
    status |-> "Finished"] :
     k \in {<<2020, 1, "monza">>, <<2020, 2, "spa">>, <<2021, 1, "monza">>},
     d \in Range(Drivers)}

\* rows of driver_standings.csv for the overview: the season varies
OverviewStandingRows ==
  {[season |-> Digits(y), round |-> Digits(1), driver |-> "Hamilton",
    driver_points_after_race |-> Digits(10),
    driver_standings_pos_after_race |-> Digits(1),
    driver_wins_after_race |-> Digits(0)] : y \in Seasons}

\* sorted(driver_standings['season'].unique()), as a set
available_seasons(standings) ==
  {standings[i].season.v : i \in DOMAIN standings}

\* results[results['season'].isin(selected_seasons)]
filter_seasons(rows, selected_seasons) ==
  SelectSeq(rows, LAMBDA r : IsNum(r.season) /\ r.season.v \in selected_seasons)

\* season.astype(str) + '_' + round.astype(str) + '_' + circuit_id: one key
\* for every row
race_key_series(rows) ==
  [i \in DOMAIN rows |-> <<rows[i].season, rows[i].round, rows[i].circuit_id>>]

\* the four metrics of the overview; Total Races is len() of the key series
overview_metrics(results, selected_seasons) ==
  LET filtered_results == filter_seasons(results, selected_seasons)
  IN  [kind |-> "metrics",
       selected_seasons |-> selected_seasons,
       total_races |-> Len(race_key_series(filtered_results)),
       unique_drivers |-> text_nunique(filtered_results, "driver"),
       unique_constructors |-> text_nunique(filtered_results, "constructor"),
       unique_circuits |-> text_nunique(filtered_results, "circuit_id")]

----------------------------------------------------------------------------
(* pages/1 Driver Analysis: the CSV export of the driver statistics *)

\* a float field that keeps one decimal only
to_csv_float_one_decimal(c) ==
  IF c.k = "inf" THEN [t |-> "word", w |-> "inf"]
  ELSE IF c.k = "nan" THEN [t |-> "word", w |-> ""]
  ELSE [t |-> "decimal", int |-> c.v \div Scale,
        frac |-> <<(c.v % Scale) \div 10>>]

\* DataFrame.to_csv on a float cell: the shortest text that reads back as the
\* same float ('25.0', '21.5', '14.33'), 'inf' for infinity, nothing for NaN;
\* the text is held as its integer part and its decimal digits
to_csv_float(c) ==
  IF c.k = "inf" THEN [t |-> "word", w |-> "inf"]
  ELSE IF c.k = "nan" THEN [t |-> "word", w |-> ""]
  ELSE [t |-> "decimal", int |-> c.v \div Scale,
        frac |-> IF c.v % 10 = 0 THEN <<(c.v % Scale) \div 10>>
                 ELSE <<(c.v % Scale) \div 10, c.v % 10>>]

\* DataFrame.to_csv on an integer cell and on a text cell
to_csv_int(n) == [t |-> "integer", int |-> n]
to_csv_text(x) == [t |-> "word", w |-> x]

\* the float columns and the integer columns of the driver statistics
StatsFloatColumns ==
  {"total_points", "avg_points_per_race", "avg_grid_position", "win_rate",
   "podium_rate", "points_per_season"}
StatsIntColumns == {"total_races", "total_wins", "total_podiums", "seasons_active"}

\* export_data.to_csv(index=False): one record of fields for every row
to_csv(table) ==
  [i \in DOMAIN table.rows |->
     [c \in DOMAIN table.rows[i] |->
        IF c \in StatsFloatColumns THEN to_csv_float(table.rows[i][c])
        ELSE IF c \in StatsIntColumns THEN to_csv_int(table.rows[i][c])
        ELSE to_csv_text(table.rows[i][c])]]

\* the texts pd.read_csv takes for a missing value
na_values == {"", "NA", "N/A", "NaN", "nan", "null", "NULL", "None", "n/a", "#N/A"}

\* the value of the decimal digits, in hundredths
frac_value(frac) ==
  IF Len(frac) = 1 THEN frac[1] * 10 ELSE frac[1] * 10 + frac[2]

\* pd.read_csv and pd.to_numeric(errors='coerce') on a field of a float column
read_csv_float(f) ==
  IF f.t = "decimal" THEN Num(f.int * Scale + frac_value(f.frac))
  ELSE IF f.t = "integer" THEN Num(f.int * Scale)
  ELSE IF f.w = "inf" THEN Inf
  ELSE NaN

\* pd.read_csv on a field of a text column: missing ("") for an NA text
read_csv_text(f) == IF f.w \in na_values THEN "" ELSE f.w

\* pd.read_csv on the exported text, with the coercion of the loader
read_csv(csv) ==
  [kind |-> "table",
   rows |-> [i \in DOMAIN csv |->
               [c \in DOMAIN csv[i] |->
                  IF c \in StatsFloatColumns THEN read_csv_float(csv[i][c])
                  ELSE IF c \in StatsIntColumns THEN csv[i][c].int
                  ELSE read_csv_text(csv[i][c])]]]

----------------------------------------------------------------------------
(* The state machine *)

NotLoaded ==
  [loaded |-> FALSE, keys |-> {},
   results |-> <<>>, driver_standings |-> <<>>,
   qualifying |-> <<>>, races |-> <<>>, weather |-> <<>>]
NotCalled == [kind |-> "none"]
\* the value each aggregation function returned when it was last called
NoCalls ==
  [driver_stats |-> NotCalled,
   constructor_stats |-> NotCalled,
   circuit_stats |-> NotCalled,
   qualifying_correlation |-> NotCalled,
   weather_impact |-> NotCalled,
   overview |-> NotCalled,
   export |-> NotCalled,
   head_to_head |-> [args |-> <<>>, val |-> NotCalled],
   season_progression |-> [args |-> <<>>, val |-> NotCalled]]
\* the script before its first line
NotStarted ==
  [phase |-> "start", load_result |-> "pending", errors |-> <<>>,
   runs |-> 0, reads |-> 0, cache |-> EmptyCache]

Init ==
  /\ results_csv = <<>>
  /\ standings_csv = <<>>
  /\ weather_csv = <<>>
  /\ qualifying_csv = <<>>
  /\ races_csv = <<>>
  /\ file_state = [k \in Range(DataFiles) |-> "ok"]
  /\ data = NotLoaded
  /\ app = NotStarted
  /\ out = NoCalls

\* a row is written to results.csv before the application starts
WriteResultsRow(rowset) ==
  /\ app.phase = "start"
  /\ ~data.loaded
  /\ Len(results_csv) < MaxResultRows
  /\ \E r \in rowset : results_csv' = Append(results_csv, r)
  /\ UNCHANGED <<standings_csv, weather_csv, qualifying_csv, races_csv,
                 file_state, data, app, out>>

\* the files as they are on disk
FilesOnDisk ==
  [driver_standings |-> standings_csv,
   qualifying |-> qualifying_csv,
   races |-> races_csv,
   results |-> results_csv,
   weather |-> weather_csv]

\* main, first run: get_data() calls load_all_data (read every file, then
\* clean_data); without a dataset the subscript data[...] raises, and the
\* except branch shows an error and stops the script
LoadAllData ==
  /\ app.phase = "start"
  /\ ~data.loaded
  /\ LET call == get_data(app.cache, file_state, FilesOnDisk)
     IN  /\ data' = dataset_of(call.result)
         /\ app' = script_after_load(app, call)
  /\ UNCHANGED <<results_csv, standings_csv, weather_csv, qualifying_csv,
                 races_csv, file_state, out>>

\* a call that sorts the standings it was given in place, descending
inputs_reversed_in_place(tables) ==
  [tables EXCEPT !.driver_standings =
     [i \in DOMAIN tables.driver_standings |->
        tables.driver_standings[Len(tables.driver_standings) + 1 - i]]]

\* the tables passed to a function of utils/statistics.py, after the call:
\* the functions assign only to local names and to frames they created
\* (groupby / merge / boolean selection / sort_values return new frames)
inputs_after_call(tables) == tables

\* a function that answers from its previous result
memoised(previous, fresh) == IF previous = NotCalled THEN fresh ELSE previous

\* what a function of utils/statistics.py returns, given what its previous
\* call returned: the module has no globals, and no function is decorated
\* or keeps anything between calls
returned(previous, fresh) == fresh

\* a call changes its value in out, and the tables as the function leaves
\* them
CallFrame ==
  /\ data' = inputs_after_call(data)
  /\ UNCHANGED <<results_csv, standings_csv, weather_csv, qualifying_csv,
                 races_csv, file_state, app>>

CallDriverStats ==
  /\ app.phase = "running"
  /\ out' = [out EXCEPT !.driver_stats =
               returned(out.driver_stats, calculate_driver_stats(data.results))]
  /\ CallFrame

CallConstructorStats ==
  /\ app.phase = "running"
  /\ out' = [out EXCEPT !.constructor_stats =
               returned(out.constructor_stats,
                        calculate_constructor_stats(data.results))]
  /\ CallFrame

CallHeadToHead ==
  /\ app.phase = "running"
  /\ \E driver1 \in Range(Drivers), driver2 \in Range(Drivers) :
       out' = [out EXCEPT !.head_to_head =
                 [args |-> <<driver1, driver2>>,
                  val |-> returned(out.head_to_head.val,
                                   calculate_head_to_head_stats(data.results,
                                                                driver1, driver2))]]
  /\ CallFrame

\* a row is written to driver_standings.csv before the application starts
WriteStandingsRow ==
  /\ app.phase = "start"
  /\ ~data.loaded
  /\ Len(standings_csv) < MaxStandingRows
  /\ \E r \in StandingRows : standings_csv' = Append(standings_csv, r)
  /\ UNCHANGED <<results_csv, weather_csv, qualifying_csv, races_csv,
                 file_state, data, app, out>>

CallSeasonProgression ==
  /\ app.phase = "running"
  /\ \E driver \in Range(Drivers), season \in Seasons :
       \E progression \in
            calculate_season_progression(data.driver_standings, driver, season) :
         out' = [out EXCEPT !.season_progression =
                   [args |-> <<driver, season>>,
                    val |-> returned(out.season_progression.val, progression)]]
  /\ CallFrame

WriteStatsRow == WriteResultsRow(StatsRows)
WriteH2HRow == WriteResultsRow(H2HRows)

Next ==
  \/ WriteStatsRow
  \/ LoadAllData
  \/ CallDriverStats
  \/ CallConstructorStats

\* the entity summaries over results.csv
Spec == Init /\ [][Next]_vars

NextH2H ==
  \/ WriteH2HRow
  \/ LoadAllData
  \/ CallHeadToHead

\* head-to-head over results.csv
SpecH2H == Init /\ [][NextH2H]_vars

NextProgression ==
  \/ WriteStandingsRow
  \/ LoadAllData
  \/ CallSeasonProgression

\* season progression over driver_standings.csv
SpecProgression == Init /\ [][NextProgression]_vars

\* a row is written to weather.csv before the application starts; every row
\* has the columns of the header
WriteWeatherRow ==
  /\ app.phase = "start"
  /\ ~data.loaded
  /\ Len(weather_csv) < MaxAuxRows
  /\ \E r \in WeatherRows :
       /\ weather_csv # <<>> => DOMAIN r = DOMAIN weather_csv[1]
       /\ weather_csv' = Append(weather_csv, r)
  /\ UNCHANGED <<results_csv, standings_csv, qualifying_csv, races_csv,
                 file_state, data, app, out>>

WriteWeatherResultsRow == WriteResultsRow(WeatherResultRows)

CallWeatherImpact ==
  /\ app.phase = "running"
  /\ out' = [out EXCEPT !.weather_impact =
               returned(out.weather_impact,
                        calculate_weather_impact(data.results, data.weather))]
  /\ CallFrame

NextWeather ==
  \/ WriteWeatherResultsRow
  \/ WriteWeatherRow
  \/ LoadAllData
  \/ CallWeatherImpact

\* weather impact over results.csv and weather.csv
SpecWeather == Init /\ [][NextWeather]_vars

\* a row is written to qualifying.csv before the application starts
WriteQualifyingRow ==
  /\ app.phase = "start"
  /\ ~data.loaded
  /\ Len(qualifying_csv) < MaxAuxRows
  /\ \E r \in QualifyingRows : qualifying_csv' = Append(qualifying_csv, r)
  /\ UNCHANGED <<results_csv, standings_csv, weather_csv, races_csv,
                 file_state, data, app, out>>

WriteQualifyingResultsRow == WriteResultsRow(QualifyingResultRows)

CallQualifyingCorrelation ==
  /\ app.phase = "running"
  /\ out' = [out EXCEPT !.qualifying_correlation =
               returned(out.qualifying_correlation,
                        calculate_qualifying_vs_race_correlation(data.qualifying,
                                                                 data.results))]
  /\ CallFrame

NextQualifying ==
  \/ WriteQualifyingResultsRow
  \/ WriteQualifyingRow
  \/ LoadAllData
  \/ CallQualifyingCorrelation

\* qualifying against race over qualifying.csv and results.csv
SpecQualifying == Init /\ [][NextQualifying]_vars

\* a row as the loader may meet it is written to results.csv; every row has
\* the columns of the header
WriteLoadResultsRow ==
  /\ app.phase = "start"
  /\ ~data.loaded
  /\ Len(results_csv) < MaxLoadRows
  /\ \E r \in LoadResultRows :
       /\ results_csv # <<>> => DOMAIN r = DOMAIN results_csv[1]
       /\ results_csv' = Append(results_csv, r)
  /\ UNCHANGED <<standings_csv, weather_csv, qualifying_csv, races_csv,
                 file_state, data, app, out>>

\* a row as the loader may meet it is written to driver_standings.csv
WriteLoadStandingsRow ==
  /\ app.phase = "start"
  /\ ~data.loaded
  /\ Len(standings_csv) < MaxLoadRows
  /\ \E r \in LoadStandingRows : standings_csv' = Append(standings_csv, r)
  /\ UNCHANGED <<results_csv, weather_csv, qualifying_csv, races_csv,
                 file_state, data, app, out>>

NextLoad ==
  \/ WriteLoadResultsRow
  \/ WriteLoadStandingsRow
  \/ LoadAllData

\* the loader over results.csv and driver_standings.csv
SpecLoad == Init /\ [][NextLoad]_vars

\* a file of attached_assets/ is removed before the application starts
LoseFile ==
  /\ app.phase = "start"
  /\ ~data.loaded
  /\ \E k \in Range(DataFiles) :
       /\ file_state[k] = "ok"
       /\ file_state' = [file_state EXCEPT ![k] = "missing"]
  /\ UNCHANGED <<results_csv, standings_csv, weather_csv, qualifying_csv,
                 races_csv, data, app, out>>

\* a file of attached_assets/ is replaced by one pd.read_csv raises on
CorruptFile ==
  /\ app.phase = "start"
  /\ ~data.loaded
  /\ \E k \in Range(DataFiles) :
       /\ file_state[k] = "ok"
       /\ file_state' = [file_state EXCEPT ![k] = "unreadable"]
  /\ UNCHANGED <<results_csv, standings_csv, weather_csv, qualifying_csv,
                 races_csv, data, app, out>>

NextFiles ==
  \/ LoseFile
  \/ CorruptFile
  \/ LoadAllData

\* the loader over the presence of the five files
SpecFiles == Init /\ [][NextFiles]_vars

\* a row is written to races.csv before the application starts
WriteRacesRow ==
  /\ app.phase = "start"
  /\ ~data.loaded
  /\ Len(races_csv) < MaxAuxRows
  /\ \E r \in RaceRows : races_csv' = Append(races_csv, r)
  /\ UNCHANGED <<results_csv, standings_csv, weather_csv, qualifying_csv,
                 file_state, data, app, out>>

WriteCircuitResultsRow == WriteResultsRow(CircuitResultRows)

CallCircuitStats ==
  /\ app.phase = "running"
  /\ out' = [out EXCEPT !.circuit_stats =
               returned(out.circuit_stats,
                        calculate_circuit_stats(data.results, data.races))]
  /\ CallFrame

NextCircuit ==
  \/ WriteCircuitResultsRow
  \/ WriteRacesRow
  \/ LoadAllData
  \/ CallCircuitStats

\* circuit statistics over results.csv and races.csv
SpecCircuit == Init /\ [][NextCircuit]_vars

WriteOverviewResultsRow == WriteResultsRow(OverviewResultRows)

\* a row is written to driver_standings.csv, where main takes the seasons
\* of its filter from
WriteOverviewStandingsRow ==
  /\ app.phase = "start"
  /\ ~data.loaded
  /\ Len(standings_csv) < MaxStandingRows
  /\ \E r \in OverviewStandingRows : standings_csv' = Append(standings_csv, r)
  /\ UNCHANGED <<results_csv, weather_csv, qualifying_csv, races_csv,
                 file_state, data, app, out>>

\* main after the load: the user's selection of seasons; without one the
\* script warns and stops, with one it shows the overview metrics
ShowOverview ==
  /\ app.phase = "running"
  /\ \E selected_seasons \in SUBSET available_seasons(data.driver_standings) :
       IF selected_seasons = {}
       THEN /\ app' = [app EXCEPT !.phase = "stopped"]
            /\ out' = out
       ELSE /\ out' = [out EXCEPT !.overview =
                         overview_metrics(data.results, selected_seasons)]
            /\ app' = app
  /\ UNCHANGED <<results_csv, standings_csv, weather_csv, qualifying_csv,
                 races_csv, file_state, data>>

NextOverview ==
  \/ WriteOverviewResultsRow
  \/ WriteOverviewStandingsRow
  \/ LoadAllData
  \/ ShowOverview

\* the overview of main over results.csv and driver_standings.csv
SpecOverview == Init /\ [][NextOverview]_vars

\* the Export Analysis Data button: the driver statistics and their CSV text
ExportAnalysisData ==
  /\ app.phase = "running"
  /\ LET export_data == calculate_driver_stats(data.results)
     IN  out' = [out EXCEPT !.export =
                   [kind |-> "export", export_data |-> export_data,
                    csv |-> to_csv(export_data)]]
  /\ CallFrame

NextExport ==
  \/ WriteStatsRow
  \/ LoadAllData
  \/ ExportAnalysisData

\* the export of the driver statistics over results.csv
SpecExport == Init /\ [][NextExport]_vars

\* a file of attached_assets/ is removed, replaced or restored at any time
ChangeFile ==
  /\ \E k \in Range(DataFiles), state \in {"ok", "missing", "unreadable"} :
       /\ file_state[k] # state
       /\ file_state' = [file_state EXCEPT ![k] = state]
  /\ UNCHANGED <<results_csv, standings_csv, weather_csv, qualifying_csv,
                 races_csv, data, app, out>>

\* an interaction, or a page of pages/, runs the script again in the same
\* process: data = get_data() once more
Rerun ==
  /\ app.load_result # "pending"
  /\ app.runs < MaxRuns
  /\ LET call == get_data(app.cache, file_state, FilesOnDisk)
     IN  /\ data' = dataset_of(call.result)
         /\ app' = script_after_load(app, call)
  /\ UNCHANGED <<results_csv, standings_csv, weather_csv, qualifying_csv,
                 races_csv, file_state, out>>

NextCache ==
  \/ ChangeFile
  \/ LoadAllData
  \/ Rerun
  \/ CallDriverStats

\* the runs of the script in one process over the presence of the files
SpecCache == Init /\ [][NextCache]_vars

\* (driver, code, grid, points, finishing position, wet) of a race weekend
WeekendProfiles ==
  {<<"Hamilton", "HAM", Digits(1), Digits(25), 1, TRUE>>,
   <<"Verstappen", "VER", Digits(2), Digits(18), 2, FALSE>>,
   <<"Hamilton", "HAM", BadText, BadText, 4, FALSE>>}

\* a race weekend adds its row to every file: the round is the number of the
\* weekend in season 2020, at monza
RaceWeekend ==
  /\ app.phase = "start"
  /\ ~data.loaded
  /\ Len(results_csv) < MaxWeekends
  /\ \E w \in WeekendProfiles :
       LET round == Digits(Len(results_csv) + 1)
       IN  /\ results_csv' = Append(results_csv,
                [season |-> Digits(2020), round |-> round, circuit_id |-> "monza",
                 driver |-> w[1], constructor |-> "Mercedes",
                 grid |-> w[3], points |-> w[4], podium |-> w[5],
                 status |-> "Finished"])
           /\ standings_csv' = Append(standings_csv,
                [season |-> Digits(2020), round |-> round, driver |-> w[1],
                 driver_points_after_race |-> w[4],
                 driver_standings_pos_after_race |-> w[3],
                 driver_wins_after_race |-> Digits(0)])
           /\ qualifying_csv' = Append(qualifying_csv,
                [season |-> Digits(2020), round |-> round, circuit_id |-> "monza",
                 grid_position |-> w[3], driver_name |-> <<w[1], w[2]>>])
           /\ races_csv' = Append(races_csv,
                [season |-> Digits(2020), round |-> round, circuit_id |-> "monza",
                 country |-> "Italy", lat |-> Digits(45), long |-> Digits(9)])
           /\ weather_csv' = Append(weather_csv,
                [season |-> Digits(2020), round |-> round, circuit_id |-> "monza",
                 weather_wet |-> Flag(w[6]), weather_dry |-> Flag(~w[6]),
                 weather_warm |-> Flag(TRUE), weather_cold |-> Flag(FALSE),
                 weather_cloudy |-> EmptyCell])
  /\ UNCHANGED <<file_state, data, app, out>>

NextQueries ==
  \/ RaceWeekend
  \/ LoadAllData
  \/ CallDriverStats
  \/ CallConstructorStats
  \/ CallCircuitStats
  \/ CallHeadToHead
  \/ CallSeasonProgression
  \/ CallWeatherImpact
  \/ CallQualifyingCorrelation

\* every aggregation over one dataset, in any order and any number of times
SpecQueries == Init /\ [][NextQueries]_vars

----------------------------------------------------------------------------
(* Claims about the entity summaries *)

\* the rows of the cleaned results table that belong to a driver
RowsOfDriver(d) == {j \in DOMAIN data.results : data.results[j].driver = d}

\* the sum of the present points, in hundredths, over a set of result rows
RECURSIVE PointsOver(_)
PointsOver(S) ==
  IF S = {} THEN 0
  ELSE LET j == CHOOSE x \in S : TRUE
       IN  (IF IsNum(data.results[j].points) THEN data.results[j].points.v ELSE 0)
             + PointsOver(S \ {j})

DriverRowsOut == IF out.driver_stats.kind = "table" THEN Range(out.driver_stats.rows) ELSE {}
ConstructorRowsOut ==
  IF out.constructor_stats.kind = "table" THEN Range(out.constructor_stats.rows) ELSE {}

\* C1: every row returned by calculate_driver_stats has total_races equal to
\* the number of result rows of that driver, rows with missing points included.
C1_TotalRacesCountsRows ==
  \A r \in DriverRowsOut : r.total_races = Cardinality(RowsOfDriver(r.driver))

\* a rate is a finite number in [0, 100], and 0 when its numerator or
\* total_races is 0
RateInRange(rate, numerator, total_races) ==
  /\ IsNum(rate)
  /\ rate.v >= 0
  /\ rate.v <= 100 * Scale
  /\ (numerator = 0 \/ total_races = 0) => rate.v = 0

\* C2: every row of the driver and constructor summaries has win_rate and
\* podium_rate in [0, 100], 0 when the numerator or total_races is 0, and
\* never infinite or undefined.
C2_RatesInRange ==
  \A r \in DriverRowsOut \cup ConstructorRowsOut :
    /\ RateInRange(r.win_rate, r.total_wins, r.total_races)
    /\ RateInRange(r.podium_rate, r.total_podiums, r.total_races)

\* c is num / den * 100 rounded to two decimals: no hundredth is nearer
IsRoundedPct(c, num, den) ==
  /\ IsNum(c)
  /\ 2 * (c.v * den - num * 100 * Scale) <= den
  /\ 2 * (num * 100 * Scale - c.v * den) <= den

\* C3: every driver's summary row has total_points equal to the sum of the
\* driver's points, total_wins equal to the number of the driver's rows with
\* points >= 25, and win_rate equal to total_wins / total_races * 100 rounded
\* to two decimals (0 where total_races is 0 and the quotient has no value).
C3_DriverTotals ==
  \A r \in DriverRowsOut :
    /\ r.total_points = Num(PointsOver(RowsOfDriver(r.driver)))
    /\ r.total_wins =
         Cardinality({j \in RowsOfDriver(r.driver) :
                        /\ IsNum(data.results[j].points)
                        /\ data.results[j].points.v >= WinPoints * Scale})
    /\ r.total_races > 0 => IsRoundedPct(r.win_rate, r.total_wins, r.total_races)
    /\ r.total_races = 0 => r.win_rate = Num(0)

\* C3 witness: the spec's example, three rows of one driver with points
\* 25, 18 and 0, summarised as 43 points, 3 races, 1 win, 33.33 percent
C3_ExampleReached ==
  /\ Len(data.results) = 3
  /\ \A j \in 1..3 : data.results[j].driver = "Hamilton"
  /\ data.results[1].points = Num(25 * Scale)
  /\ data.results[2].points = Num(18 * Scale)
  /\ data.results[3].points = Num(0)
  /\ \E r \in DriverRowsOut :
       /\ r.driver = "Hamilton"
       /\ r.total_points = Num(4300)
       /\ r.total_races = 3
       /\ r.total_wins = 1
       /\ r.win_rate = Num(3333)

\* C4: on a results table with zero rows both summaries return a table with
\* zero rows, never the absence value.
C4_EmptyInEmptyOut ==
  data.results = <<>> =>
    /\ out.driver_stats.kind \in {"none", "table"}
    /\ out.constructor_stats.kind \in {"none", "table"}
    /\ DriverRowsOut = {}
    /\ ConstructorRowsOut = {}

\* C4 witness: both summaries were computed from a loaded, empty results table
C4_EmptyCalled ==
  /\ data.loaded
  /\ data.results = <<>>
  /\ out.driver_stats = [kind |-> "table", rows |-> <<>>]
  /\ out.constructor_stats = [kind |-> "table", rows |-> <<>>]

----------------------------------------------------------------------------
(* Claims about head-to-head *)

H2H == out.head_to_head.val
H2HDriver1 == out.head_to_head.args[1]
H2HDriver2 == out.head_to_head.args[2]
H2HCalled == H2H.kind # "none"
H2HReturned == H2H.kind = "record"

\* the pairs (row of d1, row of d2) of the cleaned results with the same
\* (season, round, circuit_id)
SharedPairs(d1, d2) ==
  {p \in (DOMAIN data.results) \X (DOMAIN data.results) :
     /\ data.results[p[1]].driver = d1
     /\ data.results[p[2]].driver = d2
     /\ data.results[p[1]].season = data.results[p[2]].season
     /\ data.results[p[1]].round = data.results[p[2]].round
     /\ data.results[p[1]].circuit_id = data.results[p[2]].circuit_id}

\* the sum, over a set of pairs, of the present points of the first row
RECURSIVE PairPoints(_)
PairPoints(P) ==
  IF P = {} THEN 0
  ELSE LET p == CHOOSE x \in P : TRUE
       IN  (IF IsNum(data.results[p[1]].points) THEN data.results[p[1]].points.v ELSE 0)
             + PairPoints(P \ {p})

\* the result rows of a race that only one of the two drivers entered
EnteredAlone(d1, d2) ==
  {i \in DOMAIN data.results :
     \/ /\ data.results[i].driver = d1
        /\ \A p \in SharedPairs(d1, d2) : p[1] # i
     \/ /\ data.results[i].driver = d2
        /\ \A p \in SharedPairs(d1, d2) : p[2] # i}

\* the results without the rows of a set of indices
RECURSIVE WithoutRows(_, _, _)
WithoutRows(rows, S, i) ==
  IF i > Len(rows) THEN <<>>
  ELSE (IF i \in S THEN <<>> ELSE <<rows[i]>>) \o WithoutRows(rows, S, i + 1)

\* C5: with no (season, round, circuit_id) in common the function returns the
\* absence value, and a returned record has total_common_races >= 1.
C5_NoSharedRaceIsAbsent ==
  H2HCalled =>
    /\ SharedPairs(H2HDriver1, H2HDriver2) = {} => H2H = Absent
    /\ H2HReturned => H2H.total_common_races >= 1

\* C5 witness: two drivers with result rows and no race in common
C5_AbsentReached ==
  /\ H2H = Absent
  /\ H2HDriver1 # H2HDriver2
  /\ RowsOfDriver(H2HDriver1) # {}
  /\ RowsOfDriver(H2HDriver2) # {}

\* C6: swapping the drivers swaps the driver1_* and driver2_* fields and keeps
\* absence and total_common_races.
C6_HeadToHeadSymmetric ==
  H2HCalled =>
    LET swapped == calculate_head_to_head_stats(data.results, H2HDriver2, H2HDriver1)
    IN  /\ (H2H = Absent) <=> (swapped = Absent)
        /\ H2HReturned =>
             /\ H2H.total_common_races = swapped.total_common_races
             /\ H2H.driver1_total_points = swapped.driver2_total_points
             /\ H2H.driver1_wins = swapped.driver2_wins
             /\ H2H.driver1_podiums = swapped.driver2_podiums
             /\ H2H.driver1_better_finish = swapped.driver2_better_finish
             /\ H2H.driver1_more_points = swapped.driver2_more_points

\* C6 witness: a record for two different drivers whose totals differ
C6_AsymmetricRecordReached ==
  /\ H2HReturned
  /\ H2HDriver1 # H2HDriver2
  /\ H2H.driver1_total_points # H2H.driver2_total_points
  /\ H2H.driver1_better_finish # H2H.driver2_better_finish

\* C7: driver1's totals are made of the rows of driver1 that have a row of
\* driver2 in the same race, and the rows of races only one of the two
\* entered change no field of the record.
C7_OnlySharedRacesCount ==
  H2HReturned =>
    LET P == SharedPairs(H2HDriver1, H2HDriver2)
    IN  /\ H2H.driver1_total_points = Num(PairPoints(P))
        /\ H2H.driver1_wins = Cardinality({p \in P : data.results[p[1]].is_win})
        /\ H2H.driver1_podiums = Cardinality({p \in P : data.results[p[1]].is_podium})
        /\ H2H = calculate_head_to_head_stats(
                   WithoutRows(data.results, EnteredAlone(H2HDriver1, H2HDriver2), 1),
                   H2HDriver1, H2HDriver2)

\* C7 witness: a record while driver1 scored a win in a race driver2 missed
C7_UnsharedWinReached ==
  /\ H2HReturned
  /\ \E i \in EnteredAlone(H2HDriver1, H2HDriver2) :
       /\ data.results[i].driver = H2HDriver1
       /\ data.results[i].is_win
       /\ data.results[i].is_podium

\* the shared races in which the grid values are equal or one is missing
GridTies(d1, d2) ==
  {p \in SharedPairs(d1, d2) :
     \/ isna(data.results[p[1]].grid)
     \/ isna(data.results[p[2]].grid)
     \/ data.results[p[1]].grid = data.results[p[2]].grid}

\* C8: a shared race with equal (or missing) grid values counts for neither
\* driver: the two better_finish counts add up to total_common_races less the
\* number of such races, hence to total_common_races exactly when there is none.
C8_GridTiesCountForNeither ==
  H2HReturned =>
    LET ties == Cardinality(GridTies(H2HDriver1, H2HDriver2))
    IN  /\ H2H.driver1_better_finish + H2H.driver2_better_finish
             = H2H.total_common_races - ties
        /\ H2H.driver1_better_finish + H2H.driver2_better_finish
             <= H2H.total_common_races
        /\ (H2H.driver1_better_finish + H2H.driver2_better_finish
              = H2H.total_common_races) <=> (ties = 0)

\* C8 witness: two different drivers started one shared race from the same
\* grid value and another from different ones
C8_GridTieReached ==
  /\ H2HReturned
  /\ H2HDriver1 # H2HDriver2
  /\ \E p \in GridTies(H2HDriver1, H2HDriver2) :
       /\ IsNum(data.results[p[1]].grid)
       /\ IsNum(data.results[p[2]].grid)
  /\ H2H.driver1_better_finish = 1

----------------------------------------------------------------------------
(* Claims about season progression *)

Progression == out.season_progression.val
ProgressionDriver == out.season_progression.args[1]
ProgressionSeason == out.season_progression.args[2]
ProgressionReturned == Progression.kind = "record"

\* the cleaned standings rows of the driver and season of the last call
MatchingStandings ==
  {i \in DOMAIN data.driver_standings :
     /\ data.driver_standings[i].driver = ProgressionDriver
     /\ data.driver_standings[i].season = Num(ProgressionSeason)}

StrictlyIncreasing(rounds) ==
  \A i, j \in DOMAIN rounds : i < j => rounds[i].v < rounds[j].v
NonDecreasing(rounds) ==
  \A i, j \in DOMAIN rounds : i < j => rounds[i].v <= rounds[j].v

\* C9 as stated: the returned 'rounds' list is strictly increasing.
C9_RoundsStrictlyIncreasing ==
  ProgressionReturned =>
    /\ \A i \in DOMAIN Progression.rounds : IsNum(Progression.rounds[i])
    /\ StrictlyIncreasing(Progression.rounds)

\* C9 amended: the returned 'rounds' list holds no missing value and is
\* non-decreasing, and it is strictly increasing when no two standings rows of
\* the driver and season have the same round.
C9_RoundsNonDecreasing ==
  ProgressionReturned =>
    /\ \A i \in DOMAIN Progression.rounds : IsNum(Progression.rounds[i])
    /\ NonDecreasing(Progression.rounds)
    /\ (\A i, j \in MatchingStandings :
          i # j => data.driver_standings[i].round # data.driver_standings[j].round)
         => StrictlyIncreasing(Progression.rounds)

\* C9 witness: rows that the file holds in descending round order, one round
\* twice, were returned
C9_DuplicateRoundReached ==
  /\ ProgressionReturned
  /\ Len(Progression.rounds) = 3
  /\ \E i, j \in MatchingStandings :
       i < j /\ data.driver_standings[i].round.v > data.driver_standings[j].round.v
  /\ \E i, j \in DOMAIN Progression.rounds :
       i # j /\ Progression.rounds[i] = Progression.rounds[j]

\* C10: final_points, final_position and total_wins are those of one standings
\* row of the driver and season, a row with the maximum round.
C10_FinalFromMaxRound ==
  ProgressionReturned =>
    \E i \in MatchingStandings :
      /\ \A j \in MatchingStandings :
           data.driver_standings[j].round.v <= data.driver_standings[i].round.v
      /\ Progression.final_points = data.driver_standings[i].driver_points_after_race
      /\ Progression.final_position =
           data.driver_standings[i].driver_standings_pos_after_race
      /\ Progression.total_wins = data.driver_standings[i].driver_wins_after_race

\* C10 witness: the row of the maximum round comes first in the file and
\* differs from the last one, and a row without a round was dropped on load
C10_MaxRoundFirstReached ==
  /\ ProgressionReturned
  /\ Len(Progression.rounds) = 2
  /\ Len(standings_csv) = 3
  /\ Progression.rounds[1] # Progression.rounds[2]
  /\ Progression.rounds[2] = data.driver_standings[1].round
  /\ Progression.final_points = data.driver_standings[1].driver_points_after_race
  /\ Progression.final_points # Progression.points[1]

\* C11: calculate_season_progression returns the absence value exactly when
\* no standings row matches both the driver and the season, and a record
\* otherwise.
C11_AbsentIffNoMatch ==
  Progression.kind # "none" =>
    /\ Progression.kind \in {"absent", "record"}
    /\ (Progression = Absent) <=> (MatchingStandings = {})

\* C11 witness: the driver has standings rows, none of the season asked for
C11_OtherSeasonOnlyReached ==
  /\ Progression = Absent
  /\ MatchingStandings = {}
  /\ \E i \in DOMAIN data.driver_standings :
       data.driver_standings[i].driver = ProgressionDriver

----------------------------------------------------------------------------
(* Claims about the weather impact *)

WeatherCalled == out.weather_impact # NotCalled

\* the pairs of a results row and a weather row of the same race
JoinedPairs ==
  {p \in (DOMAIN data.results) \X (DOMAIN data.weather) :
     /\ data.results[p[1]].season = data.weather[p[2]].season
     /\ data.results[p[1]].round = data.weather[p[2]].round
     /\ data.results[p[1]].circuit_id = data.weather[p[2]].circuit_id}

\* some joined row has the flag with the given value
FlagSeen(c, b) ==
  \E p \in JoinedPairs :
    c \in DOMAIN data.weather[p[2]] /\ data.weather[p[2]][c] = b

\* C12: in the mapping calculate_weather_impact returns, a condition is a key
\* exactly when some joined row has the flag true and some joined row has it
\* false; a condition true in none or in all of the joined rows is not a key.
C12_KeyIffBothSubsets ==
  (WeatherCalled /\ out.weather_impact.kind = "dict") =>
    \A c \in Range(weather_conditions) :
      (c \in out.weather_impact.keys) <=> (FlagSeen(c, TRUE) /\ FlagSeen(c, FALSE))

\* a mapping with weather_wet as a key, and without weather_warm, which is
\* true in every joined row
C12_MixedAndUniformReached ==
  /\ WeatherCalled
  /\ out.weather_impact.kind = "dict"
  /\ "weather_wet" \in out.weather_impact.keys
  /\ "weather_warm" \notin out.weather_impact.keys
  /\ FlagSeen("weather_warm", TRUE)
  /\ out.weather_impact.stats["weather_wet"].sample_size_with >= 1

\* C13: calculate_weather_impact returns None exactly when no results row and
\* weather row share (season, round, circuit_id); with a joined row it
\* returns a mapping, which may have no keys.
C13_AbsentIffJoinEmpty ==
  WeatherCalled =>
    /\ (out.weather_impact = Absent) <=> (JoinedPairs = {})
    /\ (JoinedPairs # {}) => out.weather_impact.kind = "dict"

\* joined rows exist and the mapping has no keys
C13_EmptyMappingReached ==
  /\ WeatherCalled
  /\ JoinedPairs # {}
  /\ out.weather_impact.kind = "dict"
  /\ out.weather_impact.keys = {}

----------------------------------------------------------------------------
(* Claims about qualifying against race *)

CorrelationCalled == out.qualifying_correlation # NotCalled

\* the pairs of a qualifying row and a results row of the same race
QualifyingPairs ==
  {p \in (DOMAIN data.qualifying) \X (DOMAIN data.results) :
     /\ data.qualifying[p[1]].season = data.results[p[2]].season
     /\ data.qualifying[p[1]].round = data.results[p[2]].round
     /\ data.qualifying[p[1]].circuit_id = data.results[p[2]].circuit_id}

\* the joined rows that have both grid_position and grid
ValidPairs ==
  {p \in QualifyingPairs :
     /\ data.qualifying[p[1]].grid_position.k = "num"
     /\ data.results[p[2]].grid.k = "num"}

\* C14: calculate_qualifying_vs_race_correlation returns None whenever fewer
\* than 2 joined rows have both grid_position and grid; otherwise it returns
\* a record whose sample_size is the number of those rows, at least 2.
C14_SampleSizeCountsValidPairs ==
  CorrelationCalled =>
    IF Cardinality(ValidPairs) < 2
    THEN out.qualifying_correlation = Absent
    ELSE /\ out.qualifying_correlation.kind = "record"
         /\ out.qualifying_correlation.sample_size = Cardinality(ValidPairs)
         /\ out.qualifying_correlation.sample_size >= 2

\* a record is returned although some joined row lacks a value
C14_RecordWithDroppedRowReached ==
  /\ CorrelationCalled
  /\ out.qualifying_correlation.kind = "record"
  /\ Cardinality(QualifyingPairs) > out.qualifying_correlation.sample_size
  /\ out.qualifying_correlation.correlation.k = "num"

----------------------------------------------------------------------------
(* Claims about the loader *)

\* C15: after clean_data, is_win of a results row is true exactly when its
\* points are at least 25, whatever its status and grid; a row with missing
\* points has is_win false.
C15_WinIffPointsAtLeast25 ==
  data.loaded =>
    \A i \in DOMAIN data.results :
      LET r == data.results[i]
      IN  /\ r.is_win <=> (r.points.k = "num" /\ r.points.v >= 25 * Scale)
          /\ r.points.k = "nan" => ~r.is_win

\* a win for a row that did not finish and started beyond grid 50, next to a
\* finisher with points below 25 who did not win
C15_UnfinishedWinReached ==
  /\ data.loaded
  /\ \E i \in DOMAIN data.results :
       /\ data.results[i].status # "Finished"
       /\ data.results[i].grid.v > 50 * Scale
       /\ data.results[i].is_win
  /\ \E i \in DOMAIN data.results :
       /\ data.results[i].status = "Finished"
       /\ data.results[i].points.k = "num" /\ data.results[i].points.v > 0
       /\ ~data.results[i].is_win

\* C16: after clean_data, is_podium of a results row is true exactly when
\* the table has a podium column and the row's podium is 1, 2 or 3; without
\* the column is_podium is false in every row.
C16_PodiumIffColumnAndTopThree ==
  data.loaded =>
    \A i \in DOMAIN data.results :
      LET r == data.results[i]
      IN  r.is_podium <=> ("podium" \in DOMAIN r /\ r.podium \in {1, 2, 3})

\* a table with the column holding a third place and a fourth place
C16_ThirdAndFourthReached ==
  /\ data.loaded
  /\ \E i \in DOMAIN data.results :
       /\ "podium" \in DOMAIN data.results[i]
       /\ data.results[i].podium = 3 /\ data.results[i].is_podium
  /\ \E i \in DOMAIN data.results :
       /\ "podium" \in DOMAIN data.results[i]
       /\ data.results[i].podium = 4 /\ ~data.results[i].is_podium

\* a row that lacks season, round or driver
MissingIdentity(r) == r.season.k = "nan" \/ r.round.k = "nan" \/ r.driver = ""

\* C17: after clean_data, no row of the results table and no row of the
\* driver_standings table lacks season, round or driver.
C17_NoRowMissingIdentity ==
  data.loaded =>
    /\ \A i \in DOMAIN data.results : ~MissingIdentity(data.results[i])
    /\ \A i \in DOMAIN data.driver_standings :
         ~MissingIdentity(data.driver_standings[i])

StandingsNumeric ==
  {"driver_points_after_race", "driver_wins_after_race",
   "driver_standings_pos_after_race"}

\* the rows of driver_standings.csv with a numeric cell that does not parse
UnparsedStandings ==
  {i \in DOMAIN standings_csv :
     \E c \in StandingsNumeric : standings_csv[i][c].t = "text"}

\* the rows of the loaded standings with a missing numeric value
MissingNumericStandings ==
  {i \in DOMAIN data.driver_standings :
     \E c \in StandingsNumeric : data.driver_standings[i][c].k = "nan"}

\* a row of driver_standings.csv with an empty season, round or driver cell
RawMissingIdentity(raw) ==
  raw.season.t = "empty" \/ raw.round.t = "empty" \/ raw.driver = ""

\* the load ended with a dataset, and every results row is there with a
\* missing value where the points or grid cell did not parse
ResultsCoerced ==
  /\ app.load_result = "dataset"
  /\ Len(data.results) = Len(results_csv)
  /\ \A i \in DOMAIN results_csv :
       /\ results_csv[i].points.t = "text" => data.results[i].points.k = "nan"
       /\ results_csv[i].grid.t = "text" => data.results[i].grid.k = "nan"

\* C19 as stated: a points or grid value of results, or a numeric standings
\* field, that does not parse becomes a missing value; the load does not
\* abort and every row containing such a value is kept.
C19_UnparsedRowAlwaysKept ==
  data.loaded =>
    /\ ResultsCoerced
    /\ Cardinality(MissingNumericStandings) = Cardinality(UnparsedStandings)

\* the complete rows of results.csv with a points or grid cell that does not
\* parse
UnparsedCompleteResults ==
  {i \in DOMAIN results_csv :
     /\ results_csv[i].points.t = "text" \/ results_csv[i].grid.t = "text"
     /\ ~RawMissingIdentity(results_csv[i])}

\* the complete rows of the loaded results with a missing points or grid
MissingNumericCompleteResults ==
  {i \in DOMAIN data.results :
     /\ data.results[i].points.k = "nan" \/ data.results[i].grid.k = "nan"
     /\ ~MissingIdentity(data.results[i])}

\* C19: a points or grid value of results, or a numeric standings field,
\* that does not parse becomes a missing value; the load does not abort and
\* the row is kept if it has season, round and driver.
C19_UnparsedRowKeptIfComplete ==
  data.loaded =>
    /\ app.load_result = "dataset"
    /\ Cardinality(MissingNumericCompleteResults) =
         Cardinality(UnparsedCompleteResults)
    /\ Cardinality(MissingNumericStandings) =
         Cardinality({i \in UnparsedStandings : ~RawMissingIdentity(standings_csv[i])})

\* a results row and a standings row with an unparsed cell are both loaded,
\* and a standings row with an unparsed cell and no season is not
C19_UnparsedKeptAndDroppedReached ==
  /\ data.loaded
  /\ \E i \in DOMAIN results_csv :
       results_csv[i].points.t = "text" /\ data.results[i].points.k = "nan"
  /\ MissingNumericStandings # {}
  /\ \E i \in UnparsedStandings : RawMissingIdentity(standings_csv[i])

----------------------------------------------------------------------------
(* Claims about missing files *)

LoadReturned == app.load_result # "pending"
SomeFileFailed == \E k \in Range(DataFiles) : file_state[k] # "ok"

\* C18: if any of the five files is missing or unreadable, load_all_data
\* returns None and no partial dataset; it returns a dataset only when all
\* five were read, and that dataset has all five keys; without a dataset
\* main shows an error message and stops.
C18_AllFilesOrNone ==
  LoadReturned =>
    /\ app.load_result \in {"None", "dataset"}
    /\ SomeFileFailed =>
         /\ app.load_result = "None"
         /\ ~data.loaded /\ data.keys = {}
         /\ app.phase = "stopped"
         /\ \E i \in DOMAIN app.errors : app.errors[i][1] = "Error loading data"
    /\ app.load_result = "dataset" =>
         /\ ~SomeFileFailed
         /\ data.keys = {"driver_standings", "qualifying", "races", "results", "weather"}
         /\ app.phase = "running"

\* races.csv is unreadable and weather.csv is missing: the error of the first
\* of them is shown, then the error of main, and the script has stopped
C18_SecondFailureUnreportedReached ==
  /\ LoadReturned
  /\ file_state["races"] = "unreadable"
  /\ file_state["weather"] = "missing"
  /\ file_state["driver_standings"] = "ok" /\ file_state["qualifying"] = "ok"
  /\ app.errors = <<<<"Error loading", "races">>, <<"Error loading data", "">>>>
  /\ app.phase = "stopped"

----------------------------------------------------------------------------
(* Claims about the circuit statistics *)

CircuitCalled == out.circuit_stats # NotCalled
CircuitRowsOut == out.circuit_stats.rows

\* the circuit_id values of the results / of races_data
ResultCircuits == {data.results[i].circuit_id : i \in DOMAIN data.results}
RaceCircuits == {data.races[i].circuit_id : i \in DOMAIN data.races}

\* C20: calculate_circuit_stats returns exactly one row for every distinct
\* circuit_id of the results, whether or not races_data has a row for it; for
\* a circuit without a row in races_data country, lat and long are null, and
\* the call returns a table.
C20_OneRowPerResultCircuit ==
  CircuitCalled =>
    /\ out.circuit_stats.kind = "table"
    /\ {CircuitRowsOut[i].circuit_id : i \in DOMAIN CircuitRowsOut} = ResultCircuits
    /\ Len(CircuitRowsOut) = Cardinality(ResultCircuits)
    /\ \A i \in DOMAIN CircuitRowsOut :
         CircuitRowsOut[i].circuit_id \notin RaceCircuits =>
           /\ CircuitRowsOut[i].country = ""
           /\ CircuitRowsOut[i].lat.k = "nan"
           /\ CircuitRowsOut[i].long.k = "nan"

\* a table with a circuit races_data does not have, next to one it has twice
C20_CircuitWithoutRaceRowReached ==
  /\ CircuitCalled
  /\ \E i \in DOMAIN CircuitRowsOut :
       /\ CircuitRowsOut[i].circuit_id \notin RaceCircuits
       /\ CircuitRowsOut[i].country = ""
  /\ \E i \in DOMAIN CircuitRowsOut :
       /\ CircuitRowsOut[i].country # ""
       /\ Cardinality({j \in DOMAIN data.races :
                         data.races[j].circuit_id = CircuitRowsOut[i].circuit_id}) = 2

\* the first row of races_data for a circuit
FirstRaceRow(c) ==
  data.races[CHOOSE j \in DOMAIN data.races :
               /\ data.races[j].circuit_id = c
               /\ \A k \in DOMAIN data.races :
                    data.races[k].circuit_id = c => j <= k]

\* C21: the country, lat and long of a circuit in the table of
\* calculate_circuit_stats are those of one races_data row, the first row of
\* that circuit_id, also where that row has missing metadata.
C21_MetadataFromFirstRow ==
  CircuitCalled =>
    \A i \in DOMAIN CircuitRowsOut :
      CircuitRowsOut[i].circuit_id \in RaceCircuits =>
        LET first == FirstRaceRow(CircuitRowsOut[i].circuit_id)
        IN  /\ CircuitRowsOut[i].country = first.country
            /\ CircuitRowsOut[i].lat = first.lat
            /\ CircuitRowsOut[i].long = first.long

----------------------------------------------------------------------------
(* Claims about the weather impact: sample sizes *)

\* C29: for every condition calculate_weather_impact reports, the two sample
\* sizes add up to the number of rows of the inner join of results and
\* weather, the flags being those clean_data produced.
C29_SubsetsPartitionJoin ==
  (WeatherCalled /\ out.weather_impact.kind = "dict") =>
    \A c \in out.weather_impact.keys :
      /\ out.weather_impact.stats[c].sample_size_with
           + out.weather_impact.stats[c].sample_size_without
           = Cardinality(JoinedPairs)
      /\ out.weather_impact.stats[c].sample_size_with
           = Cardinality({p \in JoinedPairs : data.weather[p[2]][c]})

\* weather_cloudy is reported over three joined rows, one of them a row whose
\* flag cell was empty and one whose points are missing
C29_EmptyFlagCountedReached ==
  /\ WeatherCalled
  /\ out.weather_impact.kind = "dict"
  /\ "weather_cloudy" \in out.weather_impact.keys
  /\ Cardinality(JoinedPairs) = 3
  /\ \E i \in DOMAIN weather_csv : weather_csv[i].weather_cloudy.t = "empty"
  /\ \E p \in JoinedPairs :
       data.results[p[1]].points.k = "nan" /\ ~data.weather[p[2]].weather_cloudy

----------------------------------------------------------------------------
(* Claims about the season progression: rows of the same round *)

\* the number of matching rows that a stable ascending sort puts before row i
StableRank(i) ==
  Cardinality({j \in MatchingStandings :
                 \/ data.driver_standings[j].round.v < data.driver_standings[i].round.v
                 \/ /\ data.driver_standings[j].round = data.driver_standings[i].round
                    /\ j < i})

\* C25: rows of the driver and season with the same round stay in their
\* source order, so final_points, final_position and total_wins are those of
\* the row that is last in the source among the rows of the maximum round.
C25_SourceOrderBreaksTies ==
  ProgressionReturned =>
    \A i \in MatchingStandings :
      /\ Progression.points[StableRank(i) + 1] =
           data.driver_standings[i].driver_points_after_race
      /\ StableRank(i) + 1 = Cardinality(MatchingStandings) =>
           /\ Progression.final_points =
                data.driver_standings[i].driver_points_after_race
           /\ Progression.final_position =
                data.driver_standings[i].driver_standings_pos_after_race
           /\ Progression.total_wins =
                data.driver_standings[i].driver_wins_after_race

----------------------------------------------------------------------------
(* Claims about qualifying against race: the driver *)

\* the result rows that have a qualifying row of the same driver and race
ResultsWithOwnQualifying ==
  {j \in DOMAIN data.results :
     \E i \in DOMAIN data.qualifying :
       /\ <<i, j>> \in QualifyingPairs
       /\ data.qualifying[i].driver = <<data.results[j].driver>>}

\* C27: every paired observation is of one driver in one race, so
\* sample_size is at most the number of result rows that have a qualifying
\* row of the same driver and race.
C27_PairsAreOfOneDriver ==
  (CorrelationCalled /\ out.qualifying_correlation.kind = "record") =>
    out.qualifying_correlation.sample_size <= Cardinality(ResultsWithOwnQualifying)

----------------------------------------------------------------------------
(* Claims about head-to-head: several rows of one driver in one race *)

\* the (season, round, circuit_id) keys for which both drivers have a row
SharedRaceKeys(d1, d2) ==
  {<<data.results[p[1]].season, data.results[p[1]].round,
     data.results[p[1]].circuit_id>> : p \in SharedPairs(d1, d2)}

\* C28: total_common_races is the number of distinct (season, round,
\* circuit_id) keys for which both of two different drivers have a result
\* row, also when a driver has more than one row for a key.
C28_CommonRacesAreDistinctKeys ==
  (H2HReturned /\ H2HDriver1 # H2HDriver2) =>
    H2H.total_common_races = Cardinality(SharedRaceKeys(H2HDriver1, H2HDriver2))

----------------------------------------------------------------------------
(* Claims about the overview of main *)

OverviewShown == out.overview # NotCalled

\* the races of the results of the selected seasons
SelectedRaces ==
  {<<data.results[i].season, data.results[i].round, data.results[i].circuit_id>> :
     i \in {j \in DOMAIN data.results :
              data.results[j].season.v \in out.overview.selected_seasons}}

\* C30: the Total Races metric is the number of distinct (season, round,
\* circuit_id) races in the results of the selected seasons, not the number
\* of result rows.
C30_TotalRacesAreDistinctRaces ==
  OverviewShown => out.overview.total_races = Cardinality(SelectedRaces)

----------------------------------------------------------------------------
(* Claims about the export *)

Exported == out.export # NotCalled

----------------------------------------------------------------------------
(* Claims about the cached load *)

\* the files were read at most once, and main holds the cached value
CachedOnce ==
  /\ app.reads <= 1
  /\ app.load_result # "pending" =>
       /\ app.reads = 1
       /\ app.cache.kind = "entry"
       /\ app.load_result = app.cache.value.value
       /\ data.loaded => /\ data.results = app.cache.value.tables.results
                         /\ data.driver_standings = app.cache.value.tables.driver_standings
                         /\ data.keys = app.cache.value.keys

\* a step leaves an existing cache entry as it is
CacheKept == app.cache.kind = "entry" => app'.cache = app.cache

----------------------------------------------------------------------------
(* Claims about the aggregation functions together *)

\* every aggregation function has been called
AllCalled ==
  /\ out.driver_stats # NotCalled
  /\ out.constructor_stats # NotCalled
  /\ out.circuit_stats # NotCalled
  /\ out.qualifying_correlation # NotCalled
  /\ out.weather_impact # NotCalled
  /\ out.head_to_head.val # NotCalled
  /\ out.season_progression.val # NotCalled

\* a step of the running script, which here is an aggregation call, leaves
\* every table as it was
TablesKept == (app.phase = "running" /\ app'.phase = "running") => data' = data

====
